---- MODULE Spec2Model ----
(***************************************************************************)
(* Model of probikegarage-to-sqlite: the JSON-to-relational normalizer     *)
(* convert_to_sqlite (src/sqlite_converter.py; src/main.py holds the same  *)
(* normalizer) and its nested resolver find_ultimate_bike_id.              *)
(*                                                                         *)
(* The specifications share the variables:                                 *)
(*   Spec          one run of convert_to_sqlite over a bounded document    *)
(*                 set, phase by phase (the load, bikes, nested            *)
(*                 components, the installed list, the retired + not-      *)
(*                 installed lists, the installations, the table drop, the *)
(*                 six inserts, the indexes and the derived artifacts);    *)
(*   SpecResolver  one top-level call of find_ultimate_bike_id, executed   *)
(*                 invocation by invocation with an explicit call stack;   *)
(*   SpecResolverFair  the same, with the interpreter running the call     *)
(*                 to its end;                                             *)
(*   SpecTwice     two runs in succession over the same documents;         *)
(*   SpecRefused   a run during which the database may refuse a write;     *)
(*   SpecMissing   a run with some documents absent from disk;             *)
(*   SpecMalformed a run over a malformed installation record;             *)
(*   SpecSentinel  a run over sentinel timestamps;                         *)
(*   SpecViews     a run over retired components of two bikes, for the     *)
(*                 derived artifacts;                                      *)
(*   SpecMain      the same run by the convert_to_sqlite of src/main.py;   *)
(*   SpecNested    a run over two bikes that nest components;              *)
(*   SpecDownload  runs of download_component_details (src/download.py),   *)
(*                 entry by entry, with download_data in between.          *)
(***************************************************************************)
EXTENDS Integers, Sequences, FiniteSets, TLC

VARIABLES
    files,                    \* the documents on disk: name -> [exists, content]
    bikes,                    \* data["bikes"]
    components_installed,     \* data["components_installed"]
    components_retired,       \* data["components_retired"]
    components_notinstalled,  \* data["components_notinstalled"]
    installations_data,       \* every installation of every detail document
    pc,                       \* position of convert_to_sqlite
    bikes_records,
    usage_records,
    strava_records,
    components_records,
    component_usage_records,
    processed_component_ids,
    processed_usage_ids,
    installation_records,
    emitted_from,             \* history: source entry of each components record
    db,                       \* the SQLite database: table -> [exists, rows]
    views,                    \* the views of the database
    indexes,                  \* the indexes of the database: <<table, column>>
    insert_index,             \* position in the sequence of insert_all calls
    error,                    \* the exception that ended the run, or NULL
    runs,                     \* runs of convert_to_sqlite started so far
    first_run,                \* history: the database as the first run left it
    start_component,          \* SpecResolver: argument of the top-level call
    call_stack,               \* SpecResolver: active invocations, innermost last
    retval,                   \* SpecResolver: value returned by the last return
    resolver_status,          \* SpecResolver: idle, running, returned, RecursionError
    invocations,              \* SpecResolver: calls made so far
    detail_files,             \* SpecDownload: the detail files: name -> [exists, content]
    all_components,           \* SpecDownload: the entries the run walks through
    processed,                \* SpecDownload, history: what was done for each entry so far
    dl_pc,                    \* SpecDownload: position of download_component_details
    dl_runs                   \* SpecDownload: runs of download_component_details started

inputs == <<bikes, components_installed, components_retired,
            components_notinstalled, installations_data>>
database == <<db, views, indexes>>
normalizer == <<bikes_records, usage_records, strava_records, components_records,
                component_usage_records, processed_component_ids,
                processed_usage_ids, installation_records, emitted_from>>
writer == <<database, insert_index>>
resolver == <<start_component, call_stack, retval, resolver_status, invocations>>
downloader == <<detail_files, all_components, processed, dl_pc, dl_runs>>
vars == <<files, inputs, pc, normalizer, writer, error, runs, first_run, resolver,
          downloader>>

-----------------------------------------------------------------------------
(* Values *)

\* Python None, JSON null and an absent key read with dict.get
NULL == "null"
\* the zero timestamp the API uses for "no value"
SENTINEL == "0001-01-01T00:00:00Z"
\* any real timestamp
DATE == "2024-05-01T10:00:00Z"
\* a later moment of the same day, and a moment of a later day
DATE_SAME_DAY == "2024-05-01T18:30:00Z"
DATE_LATER == "2024-05-11T10:00:00Z"
\* a key the JSON object does not hold, read with a subscript
MISSING == "missing"
\* a non-empty usage / strava_bike object
USAGE == "usage"

\* Python truthiness of a string-or-None value
Truthy(v) == v # NULL /\ v # ""

\* total number of JSON objects (bikes, component entries, installation
\* records) in the document set of one run
MaxObjects == 3
\* installation records in the document set of one resolver call
MaxInstallations == 3

ComponentIds == {"c1", "c2"}
ResolverComponentIds == {"c1", "c2", "c3"}
BikeIds == {"b1", "b2"}

\* the shapes of a component object: a bare entry, an entry holding the
\* sentinel with both usage objects, and a dated entry with its current usage
ComponentShapes ==
    {[retired_at |-> NULL, usage |-> NULL, initial_usage |-> NULL],
     [retired_at |-> SENTINEL, usage |-> USAGE, initial_usage |-> USAGE],
     [retired_at |-> DATE, usage |-> USAGE, initial_usage |-> NULL]}

\* component objects with the given ids, types and shapes
ComponentObjectsOver(ids, types, shapes) ==
    {[id |-> c, type |-> t, retired_at |-> sh.retired_at, usage |-> sh.usage,
      initial_usage |-> sh.initial_usage] : c \in ids, t \in types, sh \in shapes}

\* a component object of a component list or of a bike's nested list
ComponentObjects == ComponentObjectsOver(ComponentIds, {"chain"}, ComponentShapes)

\* an installation record of a detail document, over the components C: a
\* bike-type record names its bike in target_id and, when the API fills it,
\* in bike_id
InstallationObjectsOver(C, targets, added, removed) ==
    {r \in [component_id : C, target_type : {"bike"}, target_id : BikeIds,
            bike_id : BikeIds \cup {NULL}, added_at : added, removed_at : removed] :
        r.bike_id \in {NULL, r.target_id}}
    \cup
    [component_id : C, target_type : {"component"}, target_id : targets,
     bike_id : {NULL}, added_at : added, removed_at : removed]

\* the records of a component still mounted: added on a date, removed_at the
\* sentinel
InstallationObjects(C) == InstallationObjectsOver(C, C, {DATE}, {SENTINEL})

\* sequences over S of length at most n
SeqUpTo(S, n) == UNION {[1..k -> S] : k \in 0..n}

\* the name each bike goes by
BikeNames == ("b1" :> {"Canyon"}) @@ ("b2" :> {"Brompton"})

\* bike objects: each bike under the names it may carry
BikeObjectsOver(names, comps, usages, retired) ==
    UNION {{[id |-> b, name |-> nm, components |-> c, usage |-> u,
             strava_bike |-> USAGE, retired_at |-> r] :
                nm \in names[b], c \in comps, u \in usages, r \in retired} :
           b \in BikeIds}

\* bike lists holding at most n objects, the nested components included,
\* over a domain of names, nested components, usages and retired_at values
RECURSIVE BikeListsOver(_, _)
BikeListsOver(dom, n) ==
    IF n = 0 THEN {<<>>}
    ELSE {<<>>} \cup
         UNION {{<<b>> \o rest : rest \in BikeListsOver(dom, n - 1 - Len(b.components))} :
                    b \in BikeObjectsOver(dom.names, SeqUpTo(dom.components, n - 1),
                                          dom.usages, dom.retired)}

\* the bikes of a run: named apart, with or without usage, retired_at absent
BikeDomain ==
    [names |-> BikeNames, components |-> ComponentObjects, usages |-> {NULL, USAGE},
     retired |-> {NULL}]

BikeLists(n) == BikeListsOver(BikeDomain, n)

RECURSIVE BikeListSize(_)
BikeListSize(bl) ==
    IF bl = <<>> THEN 0
    ELSE 1 + Len(Head(bl).components) + BikeListSize(Tail(bl))

-----------------------------------------------------------------------------
(* find_ultimate_bike_id, as the function it computes *)

\* the cycle guard left out
InVisitedNever(component_id, visited) == FALSE

\* line 54: the cycle guard
InVisited(component_id, visited) == component_id \in visited

\* lines 59-61: the installations of one component, in record order
component_installations(component_id) ==
    SelectSeq(installations_data, LAMBDA inst : inst.component_id = component_id)

\* line 65: installed directly on a bike
IsBikeMount(installation) ==
    installation.target_type = "bike" /\ Truthy(installation.bike_id)

\* lines 69-71: installed on another component
IsComponentMount(installation) ==
    installation.target_type = "component" /\ Truthy(installation.target_id)

\* the result of the first recursive call returned whatever it is
ParentFoundAlways(parent_bike_id) == TRUE

\* line 75: the recursive call found a bike
ParentFound(parent_bike_id) == Truthy(parent_bike_id)

\* a resolver that looks one hop only: the first bike the component itself is
\* mounted on
ScanInstallationsOneHop(insts, i, visited) ==
    IF \E k \in DOMAIN insts : IsBikeMount(insts[k])
    THEN insts[CHOOSE k \in DOMAIN insts :
                   IsBikeMount(insts[k])
                   /\ \A j \in 1..(k - 1) : ~IsBikeMount(insts[j])].bike_id
    ELSE NULL

RECURSIVE find_ultimate_bike_id(_, _)
RECURSIVE ScanInstallations(_, _, _)

\* lines 63-78: the loop over the component's installations, from record i on
ScanInstallations(insts, i, visited) ==
    IF i > Len(insts) THEN NULL
    ELSE IF IsBikeMount(insts[i]) THEN insts[i].bike_id
    ELSE IF IsComponentMount(insts[i])
         THEN LET parent_bike_id == find_ultimate_bike_id(insts[i].target_id, visited)
              IN  IF ParentFound(parent_bike_id) THEN parent_bike_id
                  ELSE ScanInstallations(insts, i + 1, visited)
    ELSE ScanInstallations(insts, i + 1, visited)

\* lines 50-78; the callee works on its own copy of visited
find_ultimate_bike_id(component_id, visited) ==
    IF InVisited(component_id, visited) THEN NULL
    ELSE ScanInstallations(component_installations(component_id), 1,
                           visited \cup {component_id})

\* lines 170-178 and 233-241: the immediate parent, a single lookup
RECURSIVE FirstComponentTarget(_, _)
FirstComponentTarget(component_id, i) ==
    IF i > Len(installations_data) THEN NULL
    ELSE IF installations_data[i].component_id = component_id
            /\ installations_data[i].target_type = "component"
         THEN installations_data[i].target_id
    ELSE FirstComponentTarget(component_id, i + 1)

\* a parent looked up only for a component whose bike was resolved
find_parent_if_resolved(component_id) ==
    IF Truthy(find_ultimate_bike_id(component_id, {}))
    THEN FirstComponentTarget(component_id, 1) ELSE NULL

find_parent_component_id(component_id) == FirstComponentTarget(component_id, 1)

-----------------------------------------------------------------------------
(* convert_to_sqlite: the record sets *)

\* lines 87-95
bike_record(bike) ==
    [id |-> bike.id, name |-> bike.name, retired_at |-> bike.retired_at]

\* lines 85-108: one pass over the bike list
RECURSIVE BikeRecords(_)
BikeRecords(bl) ==
    IF bl = <<>> THEN <<>> ELSE <<bike_record(Head(bl))>> \o BikeRecords(Tail(bl))

RECURSIVE BikeUsageRecords(_)
BikeUsageRecords(bl) ==
    IF bl = <<>> THEN <<>>
    ELSE (IF Truthy(Head(bl).usage) THEN <<[bike_id |-> Head(bl).id]>> ELSE <<>>)
         \o BikeUsageRecords(Tail(bl))

RECURSIVE BikeStravaRecords(_)
BikeStravaRecords(bl) ==
    IF bl = <<>> THEN <<>>
    ELSE (IF Truthy(Head(bl).strava_bike) THEN <<[bike_id |-> Head(bl).id]>> ELSE <<>>)
         \o BikeStravaRecords(Tail(bl))

\* lines 122-136: the record of a component nested under a bike
nested_component_record(bike, component) ==
    [id |-> component.id,
     type |-> component.type,
     status |-> "installed",
     bike_id |-> bike.id,
     parent_component_id |-> NULL,
     retired_at |-> IF component.retired_at # SENTINEL THEN component.retired_at ELSE NULL]

\* lines 166-195: the record of a component of the installed list
installed_component_record(component) ==
    [id |-> component.id,
     type |-> component.type,
     status |-> "installed",
     bike_id |-> find_ultimate_bike_id(component.id, {}),
     parent_component_id |-> find_parent_component_id(component.id),
     retired_at |-> IF component.retired_at # SENTINEL THEN component.retired_at ELSE NULL]

\* line 252: `component in data.get("components_retired", [])`, by equality
InRetiredList(component) ==
    \E i \in DOMAIN components_retired : components_retired[i] = component

\* lines 250-254
component_status(component) ==
    IF InRetiredList(component) THEN "retired" ELSE "not_installed"

\* the retired / not-installed record with retired_at copied as it is
status_component_record_raw(component) ==
    [id |-> component.id,
     type |-> component.type,
     status |-> component_status(component),
     bike_id |-> find_ultimate_bike_id(component.id, {}),
     parent_component_id |-> find_parent_component_id(component.id),
     retired_at |-> component.retired_at]

\* lines 229-262: the record of a component of the retired or not-installed list
status_component_record(component) ==
    [id |-> component.id,
     type |-> component.type,
     status |-> component_status(component),
     bike_id |-> find_ultimate_bike_id(component.id, {}),
     parent_component_id |-> find_parent_component_id(component.id),
     retired_at |-> IF component.retired_at # SENTINEL THEN component.retired_at ELSE NULL]

UsageOf(component, usage_type) ==
    IF usage_type = "current" THEN component.usage ELSE component.initial_usage

\* lines 141-150, 153-162, 201-210, 213-222: a usage row under the dedup key
add_usage_keyed(acc, component, usage_type) ==
    LET usage_key == <<component.id, usage_type>>
    IN  IF Truthy(UsageOf(component, usage_type))
           /\ usage_key \notin acc.processed_usage_ids
        THEN [acc EXCEPT
                !.component_usage_records =
                    Append(@, [component_id |-> component.id, usage_type |-> usage_type]),
                !.processed_usage_ids = @ \cup {usage_key}]
        ELSE acc

\* lines 266-269, 272-278: a usage row of the retired / not-installed loop
add_usage(acc, component, usage_type) ==
    IF Truthy(UsageOf(component, usage_type))
    THEN [acc EXCEPT
            !.component_usage_records =
                Append(@, [component_id |-> component.id, usage_type |-> usage_type])]
    ELSE acc

\* no component id counts as emitted
AlreadyProcessedNever(acc, component) == FALSE

\* line 120 and line 166: has this component id been emitted already
AlreadyProcessed(acc, component) == component.id \in acc.processed_component_ids

\* lines 119-162: one nested component
nested_component(acc, bike, component) ==
    IF ~AlreadyProcessed(acc, component)
    THEN LET a1 == [acc EXCEPT
                      !.components_records =
                          Append(@, nested_component_record(bike, component)),
                      !.processed_component_ids = @ \cup {component.id},
                      !.emitted_from =
                          Append(@, [list |-> "nested", component |-> component])]
         IN  add_usage_keyed(add_usage_keyed(a1, component, "current"),
                             component, "initial")
    ELSE acc

RECURSIVE NestedComponents(_, _, _)
NestedComponents(acc, bike, comps) ==
    IF comps = <<>> THEN acc
    ELSE NestedComponents(nested_component(acc, bike, Head(comps)), bike, Tail(comps))

\* lines 117-162
RECURSIVE NestedBikes(_, _)
NestedBikes(acc, bl) ==
    IF bl = <<>> THEN acc
    ELSE NestedBikes(NestedComponents(acc, Head(bl), Head(bl).components), Tail(bl))

\* lines 165-222: one component of the installed list
installed_component(acc, component) ==
    LET a1 == IF ~AlreadyProcessed(acc, component)
              THEN [acc EXCEPT
                      !.components_records =
                          Append(@, installed_component_record(component)),
                      !.processed_component_ids = @ \cup {component.id},
                      !.emitted_from =
                          Append(@, [list |-> "installed", component |-> component])]
              ELSE acc
    IN  add_usage_keyed(add_usage_keyed(a1, component, "current"), component, "initial")

RECURSIVE InstalledComponents(_, _)
InstalledComponents(acc, comps) ==
    IF comps = <<>> THEN acc
    ELSE InstalledComponents(installed_component(acc, Head(comps)), Tail(comps))

\* lines 229-278: one component of retired + not-installed; list is the
\* document the entry stands in (history only)
status_component(acc, component, list) ==
    LET a1 == [acc EXCEPT
                 !.components_records = Append(@, status_component_record(component)),
                 !.emitted_from = Append(@, [list |-> list, component |-> component])]
    IN  add_usage(add_usage(a1, component, "current"), component, "initial")

RECURSIVE StatusComponents(_, _, _)
StatusComponents(acc, comps, list) ==
    IF comps = <<>> THEN acc
    ELSE StatusComponents(status_component(acc, Head(comps), list), Tail(comps), list)

\* lines 283-305
installation_record(installation) ==
    [component_id |-> installation.component_id,
     target_type |-> installation.target_type,
     target_id |-> installation.target_id,
     bike_id |-> IF Truthy(installation.bike_id) THEN installation.bike_id ELSE NULL,
     added_at |-> installation.added_at,
     removed_at |-> IF installation.removed_at # SENTINEL
                    THEN installation.removed_at ELSE NULL]

RECURSIVE InstallationRecords(_)
InstallationRecords(insts) ==
    IF insts = <<>> THEN <<>>
    ELSE <<installation_record(Head(insts))>> \o InstallationRecords(Tail(insts))

\* the accumulator of the component loops
Acc ==
    [components_records |-> components_records,
     component_usage_records |-> component_usage_records,
     processed_component_ids |-> processed_component_ids,
     processed_usage_ids |-> processed_usage_ids,
     emitted_from |-> emitted_from]

SetAcc(acc) ==
    /\ components_records' = acc.components_records
    /\ component_usage_records' = acc.component_usage_records
    /\ processed_component_ids' = acc.processed_component_ids
    /\ processed_usage_ids' = acc.processed_usage_ids
    /\ emitted_from' = acc.emitted_from

-----------------------------------------------------------------------------
(* convert_to_sqlite: the database *)

\* the tables convert_to_sqlite writes (lines 324-365 and 419)
SchemaTables ==
    {"bikes", "bike_usage", "bike_strava", "components", "component_usage",
     "installations", "component_lifetime_analysis"}

\* a drop list of the keyed tables alone
tables_keyed_only == {"bikes", "components"}

\* lines 309-317
tables_to_recreate ==
    {"bikes", "bike_usage", "bike_strava", "components", "component_usage",
     "installations", "component_lifetime_analysis"}

\* the insert_all calls with the components moved to the front
InsertOrderComponentsFirst ==
    <<"components", "bikes", "bike_usage", "bike_strava", "component_usage",
      "installations">>

\* lines 322-365: the insert_all calls, in program order
InsertOrder ==
    <<"bikes", "bike_usage", "bike_strava", "components", "component_usage",
      "installations">>

\* the record set each insert_all call is given
RecordsFor(t) ==
    CASE t = "bikes" -> bikes_records
      [] t = "bike_usage" -> usage_records
      [] t = "bike_strava" -> strava_records
      [] t = "components" -> components_records
      [] t = "component_usage" -> component_usage_records
      [] t = "installations" -> installation_records

\* the foreign_keys= arguments that name another table (lines 329, 335,
\* 343-346, 352, 360-363); sqlite-utils refuses to create a table whose
\* foreign key names a table that does not exist
ForeignKeyTables(t) ==
    CASE t = "bikes" -> {}
      [] t = "bike_usage" -> {"bikes"}
      [] t = "bike_strava" -> {"bikes"}
      [] t = "components" -> {"bikes"}
      [] t = "component_usage" -> {"components"}
      [] t = "installations" -> {"components", "bikes"}

\* the pk="id" arguments (lines 324, 342, 359); installation ids are taken
\* to be distinct and are not modelled
PrimaryKeyTables == {"bikes", "components"}

DuplicateIds(records) ==
    \E i, j \in DOMAIN records : i < j /\ records[i].id = records[j].id

AbsentTable == [exists |-> FALSE, rows |-> <<>>]

\* line 320: db[table_name].drop()
table_dropped(table) == AbsentTable

\* lines 369-378: the create_index calls, in program order
IndexOrder ==
    <<<<"bikes", "user_id">>, <<"components", "user_id">>, <<"components", "type">>,
      <<"components", "bike_id">>, <<"components", "parent_component_id">>,
      <<"bike_usage", "bike_id">>, <<"component_usage", "component_id">>,
      <<"installations", "component_id">>, <<"installations", "target_id">>,
      <<"installations", "bike_id">>>>

AllIndexes == {IndexOrder[i] : i \in DOMAIN IndexOrder}

-----------------------------------------------------------------------------
(* convert_to_sqlite: the derived artifacts, over a database d *)

\* a timestamp on the time line, in half hours (JULIANDAY, and the order of
\* the ISO strings under MIN and MAX)
Moment(ts) ==
    CASE ts = DATE -> 20
      [] ts = DATE_SAME_DAY -> 37
      [] ts = DATE_LATER -> 500

\* DATE(ts): the day of a timestamp
Day(ts) == Moment(ts) \div 48

Earliest(stamps) == CHOOSE x \in stamps : \A y \in stamps : Moment(x) <= Moment(y)
Latest(stamps) == CHOOSE x \in stamps : \A y \in stamps : Moment(x) >= Moment(y)

\* lines 402-410: the tables the component_summary view selects from; the
\* view can be created without them, a SELECT over it needs them all
SummaryTables == {"components", "bikes", "component_usage", "installations"}

SummaryQueryable(d) == \A t \in SummaryTables : d[t].exists

\* a LEFT JOIN keeps the row with nulls (row 0) when nothing matches
LeftJoin(matches) == IF matches = {} THEN {0} ELSE matches

\* line 403: LEFT JOIN bikes b ON c.bike_id = b.id
bike_matches(d, c) ==
    {j \in DOMAIN d["bikes"].rows : d["bikes"].rows[j].id = c.bike_id}

\* line 404: LEFT JOIN component_usage cu_current ON c.id =
\* cu_current.component_id AND cu_current.usage_type = 'current'
usage_matches(d, c) ==
    {k \in DOMAIN d["component_usage"].rows :
        /\ d["component_usage"].rows[k].component_id = c.id
        /\ d["component_usage"].rows[k].usage_type = "current"}

\* lines 405-410: the subquery, one row per component_id: MIN(added_at) over
\* its installations whose added_at is not the sentinel
first_added_at(d, c) ==
    LET stamps == {d["installations"].rows[k].added_at :
                     k \in {x \in DOMAIN d["installations"].rows :
                              /\ d["installations"].rows[x].component_id = c.id
                              /\ d["installations"].rows[x].added_at
                                    \notin {SENTINEL, NULL}}}
    IN  IF stamps = {} THEN NULL ELSE Earliest(stamps)

\* one row of the join: components row i, bikes row j, usage row k (0: none)
summary_row(d, i, j, k) ==
    LET c == d["components"].rows[i]
    IN  [of |-> i, bike_row |-> j, usage_row |-> k,
         type |-> c.type,
         status |-> c.status,
         bike |-> IF j = 0 THEN NULL ELSE d["bikes"].rows[j].name,
         added_at |-> first_added_at(d, c),
         retired_at |-> c.retired_at,
         distance_km |-> IF k = 0 THEN NULL ELSE USAGE]

\* lines 402-410: components c LEFT JOIN bikes LEFT JOIN component_usage
\* LEFT JOIN the installations subquery
joined_rows(d) ==
    UNION {UNION {{summary_row(d, i, j, k) :
                      k \in LeftJoin(usage_matches(d, d["components"].rows[i]))} :
                  j \in LeftJoin(bike_matches(d, d["components"].rows[i]))} :
           i \in DOMAIN d["components"].rows}

\* lines 390-411: the rows a SELECT over component_summary returns (none when
\* the SELECT fails)
component_summary_rows(d) ==
    IF ~SummaryQueryable(d) THEN {} ELSE joined_rows(d)

\* line 459: GROUP BY bike, type
lifetime_group_key(row) == <<row.bike, row.type>>

\* the division carried out whatever the count
replacement_guard_none(dated, days) == TRUE

\* lines 448-449: more than one dated retirement, on different days
replacement_guard(dated, days) ==
    Cardinality(dated) > 1 /\ \E x, y \in days : x # y

\* lines 447-456: the span between the first and the last retirement over
\* the number of replacements, as the operands of the division; MAX and MIN
\* over no dated row are null, and so is all that is computed from them
avg_years_between_replacements(dated) ==
    LET stamps == {r.retired_at : r \in dated}
        days == {Day(ts) : ts \in stamps}
    IN  IF replacement_guard(dated, days) /\ stamps # {}
        THEN [is_null |-> FALSE,
              span |-> Moment(Latest(stamps)) - Moment(Earliest(stamps)),
              divisor |-> Cardinality(dated) - 1]
        ELSE [is_null |-> TRUE]

\* lines 420-456: the aggregates of one group
lifetime_row(key, group) ==
    LET dated == {r \in group : r.retired_at # NULL}
        stamps == {r.retired_at : r \in dated}
    IN  [bike |-> key[1],
         type |-> key[2],
         total_components |-> Cardinality(group),
         currently_installed |-> Cardinality({r \in group : r.status = "installed"}),
         retired_count |-> Cardinality({r \in group : r.status = "retired"}),
         inventory_count |-> Cardinality({r \in group : r.status = "not_installed"}),
         earliest_retirement |-> IF stamps = {} THEN NULL ELSE Day(Earliest(stamps)),
         latest_retirement |-> IF stamps = {} THEN NULL ELSE Day(Latest(stamps)),
         components_with_retirement_dates |-> Cardinality(dated),
         avg_years_between_replacements |-> avg_years_between_replacements(dated)]

\* the rows of a query result, in the order they are stored
RECURSIVE RowsOf(_)
RowsOf(S) ==
    IF S = {} THEN <<>>
    ELSE LET r == CHOOSE x \in S : TRUE IN <<r>> \o RowsOf(S \ {r})

\* lines 419-461: SELECT ... FROM component_summary GROUP BY bike, type
component_lifetime_analysis_rows(d) ==
    LET summary == component_summary_rows(d)
        keys == {lifetime_group_key(r) : r \in summary}
    IN  RowsOf({lifetime_row(key, {r \in summary : lifetime_group_key(r) = key}) :
                   key \in keys})

\* src/main.py lines 400-402: its component_summary joins bikes and
\* component_usage, not installations
SummaryTablesMain == {"components", "bikes", "component_usage"}

component_summary_rows_main(d) ==
    IF \A t \in SummaryTablesMain : d[t].exists THEN joined_rows(d) ELSE {}

\* src/main.py line 451: GROUP BY type; the view has no bike column
lifetime_group_key_main(row) == <<NULL, row.type>>

\* src/main.py lines 411-454: component_lifetime_analysis, a view
component_lifetime_analysis_rows_main(d) ==
    LET summary == component_summary_rows_main(d)
        keys == {lifetime_group_key_main(r) : r \in summary}
    IN  RowsOf({lifetime_row(key, {r \in summary : lifetime_group_key_main(r) = key}) :
                   key \in keys})

-----------------------------------------------------------------------------
(* The database before the run *)

FreshDb == [t \in SchemaTables |-> AbsentTable]

\* the rows an earlier run over other documents left
OldRows(t) ==
    CASE t = "bikes" -> <<[id |-> "old_b", name |-> "Old", retired_at |-> NULL]>>
      [] t = "bike_usage" -> <<[bike_id |-> "old_b"]>>
      [] t = "bike_strava" -> <<[bike_id |-> "old_b"]>>
      [] t = "components" ->
            <<[id |-> "old_c", type |-> "chain", status |-> "installed",
               bike_id |-> "old_b", parent_component_id |-> NULL,
               retired_at |-> NULL]>>
      [] t = "component_usage" -> <<[component_id |-> "old_c", usage_type |-> "current"]>>
      [] t = "installations" ->
            <<[component_id |-> "old_c", target_type |-> "bike", target_id |-> "old_b",
               bike_id |-> "old_b", added_at |-> DATE, removed_at |-> NULL]>>
      [] t = "component_lifetime_analysis" -> <<>>

OldTables ==
    [t \in SchemaTables |-> [exists |-> TRUE, rows |-> OldRows(t)]]

\* a database left by an earlier run that completed
OldDb ==
    [OldTables EXCEPT !["component_lifetime_analysis"].rows =
                          component_lifetime_analysis_rows(OldTables)]

-----------------------------------------------------------------------------
(* One run of convert_to_sqlite *)

ResolverIdle ==
    /\ start_component = NULL
    /\ call_stack = <<>>
    /\ retval = NULL
    /\ resolver_status = "idle"
    /\ invocations = 0

\* download_component_details is not running and has left no detail file
DownloaderIdle ==
    /\ detail_files = <<>>
    /\ all_components = <<>>
    /\ processed = <<>>
    /\ dl_pc = "idle"
    /\ dl_runs = 0

\* lines 14-19 and 34: the documents convert_to_sqlite looks for
DocumentNames ==
    {"bikes", "components_installed", "components_retired",
     "components_notinstalled", "component_details"}

Document(content) == [exists |-> TRUE, content |-> content]
AbsentDocument == [exists |-> FALSE, content |-> <<>>]

\* a document that is not on disk has no content
DocumentOrNone(content) ==
    {Document(content)} \cup (IF content = <<>> THEN {AbsentDocument} ELSE {})

\* the five documents, all on disk
Documents(bl, insts, ci, cr, cn) ==
    [bikes |-> Document(bl), components_installed |-> Document(ci),
     components_retired |-> Document(cr), components_notinstalled |-> Document(cn),
     component_details |-> Document(insts)]

\* the database the run is pointed at
PriorDatabase ==
    \/ db = FreshDb /\ views = {} /\ indexes = {}
    \/ db = OldDb /\ views = {"component_summary"} /\ indexes = AllIndexes

\* the locals of a run as it starts
RunStarts ==
    /\ pc = "load"
    /\ bikes = <<>>
    /\ installations_data = <<>>
    /\ components_installed = <<>>
    /\ components_retired = <<>>
    /\ components_notinstalled = <<>>
    /\ bikes_records = <<>>
    /\ usage_records = <<>>
    /\ strava_records = <<>>
    /\ components_records = <<>>
    /\ component_usage_records = <<>>
    /\ processed_component_ids = {}
    /\ processed_usage_ids = {}
    /\ installation_records = <<>>
    /\ emitted_from = <<>>
    /\ insert_index = 1
    /\ error = NULL

Init ==
    /\ \E bl \in BikeLists(MaxObjects) :
       \E insts \in SeqUpTo(InstallationObjects(ComponentIds),
                            MaxObjects - BikeListSize(bl)) :
       \E ci \in SeqUpTo(ComponentObjects,
                         MaxObjects - BikeListSize(bl) - Len(insts)) :
       \E cr \in SeqUpTo(ComponentObjects,
                         MaxObjects - BikeListSize(bl) - Len(insts) - Len(ci)) :
       \E cn \in SeqUpTo(ComponentObjects,
                         MaxObjects - BikeListSize(bl) - Len(insts) - Len(ci) - Len(cr)) :
          files = Documents(bl, insts, ci, cr, cn)
    /\ PriorDatabase
    /\ RunStarts
    /\ runs = 1
    /\ first_run = <<>>
    /\ ResolverIdle
    /\ DownloaderIdle

\* the exception leaves convert_to_sqlite
Raise(e) ==
    /\ pc' = "failed"
    /\ error' = e

\* a missing document ends the run
load_strict(document) == [failed |-> ~document.exists, content |-> document.content]

\* lines 23-29 and 35: a document that is not there is an empty list
load(document) ==
    [failed |-> FALSE,
     content |-> IF document.exists THEN document.content ELSE <<>>]

\* the tables dropped before the installation records are built
after_drop_early(phase) ==
    CASE phase = "retired" -> "drop"
      [] phase = "drop" -> "installations"
      [] phase = "installations" -> "insert"

\* lines 280-322, the order of the statements: the installation records,
\* then the drop of the tables, then the inserts
after(phase) ==
    CASE phase = "retired" -> "installations"
      [] phase = "installations" -> "drop"
      [] phase = "drop" -> "insert"

\* lines 21-47
LoadDocuments ==
    /\ pc = "load"
    /\ IF \E n \in DocumentNames : load(files[n]).failed
       THEN /\ Raise("FileNotFoundError")
            /\ UNCHANGED inputs
       ELSE /\ bikes' = load(files["bikes"]).content
            /\ components_installed' = load(files["components_installed"]).content
            /\ components_retired' = load(files["components_retired"]).content
            /\ components_notinstalled' = load(files["components_notinstalled"]).content
            /\ installations_data' = load(files["component_details"]).content
            /\ pc' = "bikes"
            /\ UNCHANGED error
    /\ UNCHANGED <<files, normalizer, writer, runs, first_run, resolver, downloader>>

\* lines 80-108
EmitBikes ==
    /\ pc = "bikes"
    /\ bikes_records' = BikeRecords(bikes)
    /\ usage_records' = BikeUsageRecords(bikes)
    /\ strava_records' = BikeStravaRecords(bikes)
    /\ pc' = "nested"
    /\ UNCHANGED <<files, inputs, components_records, component_usage_records,
                   processed_component_ids, processed_usage_ids,
                   installation_records, emitted_from, writer, error, runs,
                   first_run, resolver, downloader>>

\* lines 110-162
EmitNested ==
    /\ pc = "nested"
    /\ SetAcc(NestedBikes(Acc, bikes))
    /\ pc' = "installed"
    /\ UNCHANGED <<files, inputs, bikes_records, usage_records, strava_records,
                   installation_records, writer, error, runs, first_run, resolver, downloader>>

\* every installation record is taken to hold its component_id
malformed_skipped == FALSE

\* lines 60, 174, 237 and 286: installation["component_id"] on a record
\* without the key
malformed_installation ==
    \E i \in DOMAIN installations_data : installations_data[i].component_id = MISSING

\* lines 164-222; the first component not yet processed reads the
\* component_id of every installation record
EmitInstalled ==
    /\ pc = "installed"
    /\ IF /\ malformed_installation
          /\ \E i \in DOMAIN components_installed :
                components_installed[i].id \notin processed_component_ids
       THEN /\ Raise("KeyError")
            /\ UNCHANGED <<components_records, component_usage_records,
                           processed_component_ids, processed_usage_ids, emitted_from>>
       ELSE /\ SetAcc(InstalledComponents(Acc, components_installed))
            /\ pc' = "retired"
            /\ UNCHANGED error
    /\ UNCHANGED <<files, inputs, bikes_records, usage_records, strava_records,
                   installation_records, writer, runs, first_run, resolver, downloader>>

\* lines 224-278: all_components = retired + not-installed
EmitRetiredNotInstalled ==
    /\ pc = "retired"
    /\ IF /\ malformed_installation
          /\ components_retired \o components_notinstalled # <<>>
       THEN /\ Raise("KeyError")
            /\ UNCHANGED <<components_records, component_usage_records,
                           processed_component_ids, processed_usage_ids, emitted_from>>
       ELSE /\ SetAcc(StatusComponents(
                          StatusComponents(Acc, components_retired, "retired"),
                          components_notinstalled, "notinstalled"))
            /\ pc' = after("retired")
            /\ UNCHANGED error
    /\ UNCHANGED <<files, inputs, bikes_records, usage_records, strava_records,
                   installation_records, writer, runs, first_run, resolver, downloader>>

\* lines 280-306
EmitInstallations ==
    /\ pc = "installations"
    /\ IF malformed_installation
       THEN /\ Raise("KeyError")
            /\ UNCHANGED installation_records
       ELSE /\ installation_records' = InstallationRecords(installations_data)
            /\ pc' = after("installations")
            /\ UNCHANGED error
    /\ UNCHANGED <<files, inputs, bikes_records, usage_records, strava_records,
                   components_records, component_usage_records,
                   processed_component_ids, processed_usage_ids, emitted_from,
                   writer, runs, first_run, resolver, downloader>>

\* lines 318-320: every table of the list that is in the database is dropped,
\* its indexes with it
DropTablesOf(list) ==
    /\ pc = "drop"
    /\ db' = [t \in DOMAIN db |->
                 IF t \in list /\ db[t].exists THEN table_dropped(db[t]) ELSE db[t]]
    /\ indexes' = {ix \in indexes : db'[ix[1]].exists}
    /\ pc' = after("drop")
    /\ UNCHANGED <<files, inputs, normalizer, views, insert_index, error, runs,
                   first_run, resolver, downloader>>

DropTables == DropTablesOf(tables_to_recreate)

\* lines 322-365: the next insert_all call. An empty record set is skipped;
\* a foreign key to a missing table and a repeated primary key abort the run
InsertTable ==
    /\ pc = "insert"
    /\ LET t == InsertOrder[insert_index]
           records == RecordsFor(t)
           rows == db[t].rows \o records
       IN  IF records # <<>> /\ ~db[t].exists
              /\ \E o \in ForeignKeyTables(t) : ~db[o].exists
           THEN /\ Raise("AlterError")
                /\ UNCHANGED <<db, insert_index>>
           ELSE IF records # <<>> /\ t \in PrimaryKeyTables /\ DuplicateIds(rows)
           THEN /\ Raise("IntegrityError")
                /\ db' = [db EXCEPT ![t] = [exists |-> TRUE, rows |-> db[t].rows]]
                /\ UNCHANGED insert_index
           ELSE /\ db' = IF records # <<>>
                         THEN [db EXCEPT ![t] = [exists |-> TRUE, rows |-> rows]]
                         ELSE db
                /\ insert_index' = insert_index + 1
                /\ pc' = IF insert_index = Len(InsertOrder) THEN "indexes" ELSE "insert"
                /\ UNCHANGED error
    /\ UNCHANGED <<files, inputs, normalizer, views, indexes, runs, first_run, resolver, downloader>>

\* the exception leaves the try block
uncaught(continue) == "failed"

\* lines 380-381 and 466-467: `except Exception` prints a note and the run
\* goes on
caught(continue) == continue

\* the create_index calls made before the first one that fails
IndexesCreated ==
    {IndexOrder[i] :
        i \in {x \in DOMAIN IndexOrder :
                 \A y \in 1..x : db[IndexOrder[y][1]].exists}}

\* lines 367-381: create_index on a table that does not exist raises
CreateIndexes ==
    /\ pc = "indexes"
    /\ indexes' = indexes \cup IndexesCreated
    /\ pc' = IF IndexesCreated # AllIndexes THEN caught("views") ELSE "views"
    /\ error' = IF pc' = "failed" THEN "OperationalError" ELSE error
    /\ UNCHANGED <<files, inputs, normalizer, db, views, insert_index, runs,
                   first_run, resolver, downloader>>

\* lines 418-464: CREATE TABLE ... AS SELECT fails when the table is there
\* already or the SELECT fails
LifetimeAnalysisFails ==
    db["component_lifetime_analysis"].exists \/ ~SummaryQueryable(db)

\* lines 383-467: the view is dropped and created again, then the analysis
\* table is filled from it
CreateViews ==
    /\ pc = "views"
    /\ views' = views \cup {"component_summary"}
    /\ db' = IF LifetimeAnalysisFails THEN db
             ELSE [db EXCEPT !["component_lifetime_analysis"] =
                      [exists |-> TRUE, rows |-> component_lifetime_analysis_rows(db)]]
    /\ pc' = IF LifetimeAnalysisFails THEN caught("done") ELSE "done"
    /\ error' = IF pc' = "failed" THEN "OperationalError" ELSE error
    /\ UNCHANGED <<files, inputs, normalizer, indexes, insert_index, runs,
                   first_run, resolver, downloader>>

Next ==
    \/ LoadDocuments
    \/ EmitBikes
    \/ EmitNested
    \/ EmitInstalled
    \/ EmitRetiredNotInstalled
    \/ EmitInstallations
    \/ DropTables
    \/ InsertTable
    \/ CreateIndexes
    \/ CreateViews

Spec == Init /\ [][Next]_vars

-----------------------------------------------------------------------------
(* Two runs in succession over the same documents and the same database *)

\* objects in the document set of the run that is repeated
MaxObjectsTwice == 3

\* components bare, or dated with their current usage
TwiceComponents ==
    ComponentObjectsOver(ComponentIds, {"chain"},
        {[retired_at |-> NULL, usage |-> NULL, initial_usage |-> NULL],
         [retired_at |-> DATE, usage |-> USAGE, initial_usage |-> NULL]})

TwiceBikeDomain ==
    [names |-> BikeNames, components |-> TwiceComponents, usages |-> {USAGE},
     retired |-> {NULL}]

\* installations on a bike that name it in bike_id, or on a component
TwiceInstallations ==
    {r \in InstallationObjects(ComponentIds) :
        r.target_type = "bike" => r.bike_id = r.target_id}

InitTwice ==
    /\ \E bl \in BikeListsOver(TwiceBikeDomain, MaxObjectsTwice) :
       \E insts \in SeqUpTo(TwiceInstallations, MaxObjectsTwice - BikeListSize(bl)) :
       \E ci \in SeqUpTo(TwiceComponents,
                         MaxObjectsTwice - BikeListSize(bl) - Len(insts)) :
       \E cr \in SeqUpTo(TwiceComponents,
                         MaxObjectsTwice - BikeListSize(bl) - Len(insts) - Len(ci)) :
          files = Documents(bl, insts, ci, cr, <<>>)
    /\ PriorDatabase
    /\ RunStarts
    /\ runs = 1
    /\ first_run = <<>>
    /\ ResolverIdle
    /\ DownloaderIdle

\* what a run leaves behind
Database == [db |-> db, views |-> views, indexes |-> indexes]

\* convert_to_sqlite is called again once the first call has ended
RunAgain ==
    /\ pc \in {"done", "failed"}
    /\ runs = 1
    /\ runs' = 2
    /\ first_run' = <<Database>>
    /\ pc' = "load"
    /\ bikes' = <<>>
    /\ installations_data' = <<>>
    /\ components_installed' = <<>>
    /\ components_retired' = <<>>
    /\ components_notinstalled' = <<>>
    /\ bikes_records' = <<>>
    /\ usage_records' = <<>>
    /\ strava_records' = <<>>
    /\ components_records' = <<>>
    /\ component_usage_records' = <<>>
    /\ processed_component_ids' = {}
    /\ processed_usage_ids' = {}
    /\ installation_records' = <<>>
    /\ emitted_from' = <<>>
    /\ insert_index' = 1
    /\ error' = NULL
    /\ UNCHANGED <<files, database, resolver, downloader>>

NextTwice ==
    \/ Next
    \/ RunAgain

SpecTwice == InitTwice /\ [][NextTwice]_vars

-----------------------------------------------------------------------------
(* One top-level call of find_ultimate_bike_id, invocation by invocation *)

\* the interpreter's recursion limit, scaled to the model: deeper than any
\* chain of distinct components plus the call that meets the cycle guard
RecursionLimit == Cardinality(ResolverComponentIds) + 2

\* a new invocation: `visited` is the set object handed to it
Frame(component_id, visited) ==
    [component_id |-> component_id, visited |-> visited, i |-> 1, pc |-> "enter"]

Top == call_stack[Len(call_stack)]

SetTop(frame) == call_stack' = [call_stack EXCEPT ![Len(call_stack)] = frame]

\* a return statement: the frame is popped and the value handed to the caller
Return(v) ==
    /\ call_stack' = SubSeq(call_stack, 1, Len(call_stack) - 1)
    /\ retval' = v
    /\ resolver_status' = IF Len(call_stack) = 1 THEN "returned" ELSE resolver_status
    /\ UNCHANGED invocations

InitResolver ==
    /\ installations_data \in
           SeqUpTo(InstallationObjects(ResolverComponentIds), MaxInstallations)
    /\ bikes = <<>>
    /\ components_installed = <<>>
    /\ components_retired = <<>>
    /\ components_notinstalled = <<>>
    /\ pc = "resolver"
    /\ bikes_records = <<>>
    /\ usage_records = <<>>
    /\ strava_records = <<>>
    /\ components_records = <<>>
    /\ component_usage_records = <<>>
    /\ processed_component_ids = {}
    /\ processed_usage_ids = {}
    /\ installation_records = <<>>
    /\ emitted_from = <<>>
    \* the resolver reads installations_data alone: the documents it was
    \* loaded from and the database stay out of these steps
    /\ files = Documents(<<>>, <<>>, <<>>, <<>>, <<>>)
    /\ db = FreshDb
    /\ views = {}
    /\ indexes = {}
    /\ insert_index = 1
    /\ error = NULL
    /\ runs = 1
    /\ first_run = <<>>
    /\ start_component \in ResolverComponentIds
    /\ call_stack = <<Frame(start_component, {})>>
    /\ retval = NULL
    /\ resolver_status = "running"
    /\ invocations = 1
    /\ DownloaderIdle

\* lines 51-61: the cycle guard, visited.add and the component's installations
ResolverEnter ==
    /\ resolver_status = "running"
    /\ Top.pc = "enter"
    /\ IF InVisited(Top.component_id, Top.visited)
       THEN Return(NULL)
       ELSE /\ SetTop([Top EXCEPT !.visited = @ \cup {Top.component_id},
                                  !.pc = "loop"])
            /\ UNCHANGED <<retval, resolver_status, invocations>>
    /\ UNCHANGED <<files, inputs, pc, normalizer, writer, error, runs, first_run,
                   start_component, downloader>>

\* lines 63-78: one iteration of the loop over the installations
ResolverScan ==
    /\ resolver_status = "running"
    /\ Top.pc = "loop"
    /\ LET insts == component_installations(Top.component_id)
       IN  IF Top.i > Len(insts) THEN Return(NULL)
           ELSE IF IsBikeMount(insts[Top.i]) THEN Return(insts[Top.i].bike_id)
           ELSE IF IsComponentMount(insts[Top.i])
                THEN IF Len(call_stack) >= RecursionLimit
                     THEN /\ resolver_status' = "RecursionError"
                          /\ UNCHANGED <<call_stack, retval, invocations>>
                     ELSE /\ call_stack' =
                                Append([call_stack EXCEPT ![Len(call_stack)].pc = "await"],
                                       Frame(insts[Top.i].target_id, Top.visited))
                          /\ invocations' = invocations + 1
                          /\ UNCHANGED <<retval, resolver_status>>
           ELSE /\ SetTop([Top EXCEPT !.i = @ + 1])
                /\ UNCHANGED <<retval, resolver_status, invocations>>
    /\ UNCHANGED <<files, inputs, pc, normalizer, writer, error, runs, first_run,
                   start_component, downloader>>

\* lines 72-76: back from the recursive call
ResolverResume ==
    /\ resolver_status = "running"
    /\ Top.pc = "await"
    /\ IF ParentFound(retval)
       THEN Return(retval)
       ELSE /\ SetTop([Top EXCEPT !.i = @ + 1, !.pc = "loop"])
            /\ UNCHANGED <<retval, resolver_status, invocations>>
    /\ UNCHANGED <<files, inputs, pc, normalizer, writer, error, runs, first_run,
                   start_component, downloader>>

NextResolver ==
    \/ ResolverEnter
    \/ ResolverScan
    \/ ResolverResume

SpecResolver == InitResolver /\ [][NextResolver]_vars

\* the stepwise call returns what the function computes
ResolverMatchesFunction ==
    resolver_status = "returned" => retval = find_ultimate_bike_id(start_component, {})

\* the interpreter keeps running the call until it returns
SpecResolverFair == SpecResolver /\ WF_vars(NextResolver)

-----------------------------------------------------------------------------
(* download_component_details (src/download.py), run after run from an empty
   directory of detail files, with download_data rewriting the component
   lists in between *)

\* entries in the three component lists together
MaxListed == 2
\* runs of download_component_details
MaxDownloadRuns == 2

\* component types, as the characters that matter to the file name
DownloadTypes == {<<"chain">>, <<"disc", " ", "brake">>}

\* the components the lists may hold: c1 under either type, c2 a chain
ListedComponents ==
    ComponentObjectsOver({"c1"}, DownloadTypes,
                         {[retired_at |-> NULL, usage |-> NULL, initial_usage |-> NULL]})
    \cup ComponentObjectsOver({"c2"}, {<<"chain">>},
                         {[retired_at |-> NULL, usage |-> NULL, initial_usage |-> NULL]})

\* line 128: component_api_type.replace("/", "-").replace(" ", "-")
safe_type(component_api_type) ==
    [i \in DOMAIN component_api_type |->
        IF component_api_type[i] \in {"/", " "} THEN "-" ELSE component_api_type[i]]

\* line 129: uuid--type.json
output_file(component) == <<component.id, safe_type(component.type)>>

DetailNames == {output_file(c) : c \in ListedComponents}

\* what the API answers to a request: a JSON document, or nothing usable
ApiData == "fetched"
\* no request was made
NOT_REQUESTED == "not requested"

\* lines 29-46: the JSON document, or None after any error
DownloadJsonResults == {ApiData, NULL}

\* the three lists a run may find on disk, MaxListed entries in all; a list
\* without entries may be missing
ListDocuments ==
    UNION {UNION {UNION {
        [components_retired : DocumentOrNone(cr),
         components_installed : DocumentOrNone(ci),
         components_notinstalled : DocumentOrNone(cn)] :
            cn \in SeqUpTo(ListedComponents, MaxListed - Len(cr) - Len(ci))} :
            ci \in SeqUpTo(ListedComponents, MaxListed - Len(cr))} :
            cr \in SeqUpTo(ListedComponents, MaxListed)}

WithLists(f, lists) ==
    [f EXCEPT !["components_retired"] = lists.components_retired,
              !["components_installed"] = lists.components_installed,
              !["components_notinstalled"] = lists.components_notinstalled]

InitDownload ==
    /\ \E lists \in ListDocuments :
          files = WithLists(Documents(<<>>, <<>>, <<>>, <<>>, <<>>), lists)
    /\ detail_files = [name \in DetailNames |-> AbsentDocument]
    /\ all_components = <<>>
    /\ processed = <<>>
    /\ dl_pc = "idle"
    /\ dl_runs = 0
    /\ db = FreshDb /\ views = {} /\ indexes = {}
    /\ RunStarts
    /\ runs = 1
    /\ first_run = <<>>
    /\ ResolverIdle

\* lines 102-112: the entries of one list, each tagged with its source; a
\* list that is not on disk is skipped
tagged(document, component_type) ==
    IF document.exists
    THEN [i \in DOMAIN document.content |->
             [id |-> document.content[i].id, type |-> document.content[i].type,
              _source_type |-> component_type]]
    ELSE <<>>

\* lines 89-118: retired, installed, not_installed, in this order
LoadComponentLists ==
    /\ dl_pc = "idle"
    /\ dl_runs < MaxDownloadRuns
    /\ all_components' = tagged(files["components_retired"], "retired")
                          \o tagged(files["components_installed"], "installed")
                          \o tagged(files["components_notinstalled"], "not_installed")
    /\ processed' = <<>>
    /\ dl_pc' = "loop"
    /\ dl_runs' = dl_runs + 1
    /\ UNCHANGED <<files, inputs, pc, normalizer, writer, error, runs, first_run,
                   resolver, detail_files>>

\* no entry is skipped
skip_never(component, exists) == FALSE

\* lines 132-136: a retired component whose file exists is skipped
skip_existing(component, exists) == component._source_type = "retired" /\ exists

\* the file is saved as soon as the component download succeeded
save_if_component(component_data, installations) == component_data # NULL

\* line 157: only save if both downloads succeeded
save_if_both(component_data, installations) ==
    component_data # NULL /\ installations # NULL

\* what was done for one entry
Outcome(component, before, component_data, installations, wrote, left) ==
    [component |-> component, before |-> before, component_data |-> component_data,
     installations_data |-> installations, wrote |-> wrote, left |-> left]

\* lines 121-167: one iteration of the loop over all_components
DownloadComponent ==
    /\ dl_pc = "loop"
    /\ Len(processed) < Len(all_components)
    /\ LET component == all_components[Len(processed) + 1]
           name == output_file(component)
       IN  IF skip_existing(component, detail_files[name].exists)
           THEN /\ processed' = Append(processed,
                                      Outcome(component, detail_files[name],
                                              NOT_REQUESTED, NOT_REQUESTED, FALSE,
                                              detail_files[name]))
                /\ UNCHANGED detail_files
           ELSE \E component_data \in DownloadJsonResults :
                \E installations \in DownloadJsonResults :
                   /\ detail_files' =
                         IF save_if_both(component_data, installations)
                         THEN [detail_files EXCEPT ![name] = Document(ApiData)]
                         ELSE detail_files
                   /\ processed' = Append(processed,
                                         Outcome(component, detail_files[name],
                                                 component_data, installations,
                                                 save_if_both(component_data, installations),
                                                 detail_files'[name]))
    /\ UNCHANGED <<files, inputs, pc, normalizer, writer, error, runs, first_run,
                   resolver, all_components, dl_pc, dl_runs>>

\* lines 169-171: the loop is over
DownloadEnds ==
    /\ dl_pc = "loop"
    /\ Len(processed) = Len(all_components)
    /\ dl_pc' = "done"
    /\ UNCHANGED <<files, inputs, pc, normalizer, writer, error, runs, first_run,
                   resolver, detail_files, all_components, processed, dl_runs>>

\* line 172: return True; the locals of the call are gone
DownloadReturns ==
    /\ dl_pc = "done"
    /\ all_components' = <<>>
    /\ processed' = <<>>
    /\ dl_pc' = "idle"
    /\ UNCHANGED <<files, inputs, pc, normalizer, writer, error, runs, first_run,
                   resolver, detail_files, dl_runs>>

\* lines 49-86, between two runs: each list is saved anew when its download
\* succeeded and kept as it was, missing if it was missing, otherwise
DownloadData ==
    /\ dl_pc = "idle"
    /\ dl_runs \in 1..(MaxDownloadRuns - 1)
    /\ \E lists \in ListDocuments :
          /\ \A n \in DOMAIN lists : ~lists[n].exists => ~files[n].exists
          /\ files' = WithLists(files, lists)
          /\ files' # files
    /\ UNCHANGED <<inputs, pc, normalizer, writer, error, runs, first_run, resolver,
                   downloader>>

NextDownload ==
    \/ LoadComponentLists
    \/ DownloadComponent
    \/ DownloadEnds
    \/ DownloadReturns
    \/ DownloadData

SpecDownload == InitDownload /\ [][NextDownload]_vars

-----------------------------------------------------------------------------
(* The installation graph, as the claims speak of it *)

InstallationSet == {installations_data[i] : i \in DOMAIN installations_data}

\* the components c is mounted on, one hop
MountedOn(c) ==
    {r.target_id : r \in {x \in InstallationSet :
                            x.component_id = c /\ x.target_type = "component"}}

\* the components reached from the set S by zero or more hops
RECURSIVE ReachableFrom(_)
ReachableFrom(S) ==
    LET more == S \cup UNION {MountedOn(c) : c \in S}
    IN  IF more = S THEN S ELSE ReachableFrom(more)

\* some component of c's chain is reached again from itself
ChainHasCycle(c) ==
    \E x \in ReachableFrom({c}) : MountedOn(x) # {} /\ x \in ReachableFrom(MountedOn(x))

\* the bike-type installations at the end of c's chains
TerminalMounts(c) ==
    {r \in InstallationSet :
        r.component_id \in ReachableFrom({c}) /\ r.target_type = "bike"}

\* the bikes they name in a non-null bike_id
ReachableBikeIds(c) == {r.bike_id : r \in {x \in TerminalMounts(c) : x.bike_id # NULL}}

\* the components the top-level resolver call is about
ComponentsInvolved ==
    {start_component}
    \cup {r.component_id : r \in InstallationSet}
    \cup {r.target_id : r \in {x \in InstallationSet : x.target_type = "component"}}

\* the component record set is complete
ComponentsBuilt ==
    /\ pc \in {"installations", "drop", "insert", "indexes", "views", "done", "failed"}
    /\ error # "KeyError"

RecordsOf(c) == {i \in DOMAIN components_records : components_records[i].id = c}

FlatRecords == {i \in DOMAIN components_records : emitted_from[i].list # "nested"}

RECURSIVE NestedIds(_)
NestedIds(bl) ==
    IF bl = <<>> THEN {}
    ELSE {Head(bl).components[i].id : i \in DOMAIN Head(bl).components}
         \cup NestedIds(Tail(bl))

SourceComponentIds ==
    NestedIds(bikes)
    \cup {components_installed[i].id : i \in DOMAIN components_installed}
    \cup {components_retired[i].id : i \in DOMAIN components_retired}
    \cup {components_notinstalled[i].id : i \in DOMAIN components_notinstalled}

-----------------------------------------------------------------------------
(* A run on a database that refuses a statement: another connection holds a
   lock, and the DROP TABLE or the INSERT raises OperationalError *)

\* lines 309-317: the drop list, in program order
DropOrder ==
    <<"bikes", "bike_usage", "bike_strava", "components", "component_usage",
      "installations", "component_lifetime_analysis">>

\* lines 318-320, the k-th drop refused: the tables before it are gone, the
\* exception leaves the loop and the function
DropRefused ==
    /\ pc = "drop"
    /\ \E k \in DOMAIN DropOrder :
          /\ DropOrder[k] \in tables_to_recreate
          /\ db[DropOrder[k]].exists
          /\ db' = [t \in DOMAIN db |->
                       IF /\ t \in tables_to_recreate
                          /\ db[t].exists
                          /\ \E j \in 1..(k - 1) : DropOrder[j] = t
                       THEN table_dropped(db[t]) ELSE db[t]]
    /\ indexes' = {ix \in indexes : db'[ix[1]].exists}
    /\ Raise("OperationalError")
    /\ UNCHANGED <<files, inputs, normalizer, views, insert_index, runs,
                   first_run, resolver, downloader>>

\* lines 322-365, the next insert_all refused: its table is not written
InsertRefused ==
    /\ pc = "insert"
    /\ RecordsFor(InsertOrder[insert_index]) # <<>>
    /\ Raise("OperationalError")
    /\ UNCHANGED <<files, inputs, normalizer, writer, runs, first_run, resolver, downloader>>

NextRefused ==
    \/ Next
    \/ DropRefused
    \/ InsertRefused

SpecRefused == InitTwice /\ [][NextRefused]_vars

-----------------------------------------------------------------------------
(* A run over retired components of two bikes, for the derived artifacts *)

\* components in the retired list
MaxViewComponents == 3

ViewComponentIds == <<"c1", "c2", "c3", "c4">>

\* the k-th retired component: of either type, undated or retired at one of
\* three moments, with its usage
ViewComponents(k) ==
    ComponentObjectsOver({ViewComponentIds[k]}, {"chain", "tire"},
        {[retired_at |-> r, usage |-> USAGE, initial_usage |-> NULL] :
            r \in {NULL, DATE, DATE_SAME_DAY, DATE_LATER}})

\* the bike the k-th component may be mounted on
ViewBike(k) == IF k % 2 = 1 THEN "b1" ELSE "b2"

\* the installation records of the components mounted on their bike
RECURSIVE ViewInstallations(_, _)
ViewInstallations(mounted, k) ==
    IF k = 0 THEN <<>>
    ELSE ViewInstallations(mounted, k - 1) \o
         (IF k \in mounted
          THEN <<[component_id |-> ViewComponentIds[k], target_type |-> "bike",
                  target_id |-> ViewBike(k), bike_id |-> ViewBike(k),
                  added_at |-> DATE, removed_at |-> DATE_LATER]>>
          ELSE <<>>)

\* two bikes, under one name or under two
ViewBikes(name) ==
    <<[id |-> "b1", name |-> "Canyon", components |-> <<>>, usage |-> USAGE,
       strava_bike |-> USAGE, retired_at |-> NULL],
      [id |-> "b2", name |-> name, components |-> <<>>, usage |-> USAGE,
       strava_bike |-> USAGE, retired_at |-> NULL]>>

InitViews ==
    /\ \E n \in 0..MaxViewComponents :
       \E cr \in {q \in [1..n -> UNION {ViewComponents(k) : k \in 1..n}] :
                     \A k \in 1..n : q[k] \in ViewComponents(k)} :
       \E mounted \in SUBSET (1..n) :
       \E name \in {"Canyon", "Brompton"} :
          files = Documents(ViewBikes(name), ViewInstallations(mounted, n),
                            <<>>, cr, <<>>)
    /\ db = FreshDb
    /\ views = {}
    /\ indexes = {}
    /\ RunStarts
    /\ runs = 1
    /\ first_run = <<>>
    /\ ResolverIdle
    /\ DownloaderIdle

SpecViews == InitViews /\ [][Next]_vars

-----------------------------------------------------------------------------
(* The same run by the convert_to_sqlite of src/main.py, the function the
   command line calls: the same normalizer and inserts, its own drop list and
   its own derived artifacts *)

\* src/main.py lines 309-316
tables_to_recreate_main ==
    {"bikes", "bike_usage", "bike_strava", "components", "component_usage",
     "installations"}

\* src/main.py lines 317-319
DropTablesMain == DropTablesOf(tables_to_recreate_main)

\* src/main.py lines 382-458: both artifacts are views; DROP VIEW IF EXISTS
\* raises when the name is a table's
CreateViewsMain ==
    /\ pc = "views"
    /\ views' = views \cup
                  (IF db["component_lifetime_analysis"].exists
                   THEN {"component_summary"}
                   ELSE {"component_summary", "component_lifetime_analysis"})
    /\ pc' = IF db["component_lifetime_analysis"].exists THEN caught("done") ELSE "done"
    /\ error' = IF pc' = "failed" THEN "OperationalError" ELSE error
    /\ UNCHANGED <<files, inputs, normalizer, db, indexes, insert_index, runs,
                   first_run, resolver, downloader>>

NextMain ==
    \/ LoadDocuments
    \/ EmitBikes
    \/ EmitNested
    \/ EmitInstalled
    \/ EmitRetiredNotInstalled
    \/ EmitInstallations
    \/ DropTablesMain
    \/ InsertTable
    \/ CreateIndexes
    \/ CreateViewsMain

SpecMain == InitViews /\ [][NextMain]_vars

-----------------------------------------------------------------------------
(* A run over documents whose timestamps hold the API's "no value" sentinel *)

\* objects in the document set with the sentinel timestamps
MaxObjectsSentinel == 3

\* bikes in use (retired_at absent or the sentinel) or retired on a date
SentinelBikeDomain ==
    [names |-> BikeNames, components |-> ComponentObjects, usages |-> {USAGE},
     retired |-> {NULL, SENTINEL, DATE}]

\* installations still mounted (removed_at the sentinel) or removed on a date
SentinelInstallations ==
    {r \in InstallationObjectsOver(ComponentIds, ComponentIds, {DATE},
                                   {SENTINEL, DATE_LATER}) :
        r.target_type = "bike" => r.bike_id = r.target_id}

InitSentinel ==
    /\ \E bl \in BikeListsOver(SentinelBikeDomain, MaxObjectsSentinel) :
       \E insts \in SeqUpTo(SentinelInstallations,
                            MaxObjectsSentinel - BikeListSize(bl)) :
       \E ci \in SeqUpTo(ComponentObjects,
                         MaxObjectsSentinel - BikeListSize(bl) - Len(insts)) :
       \E cr \in SeqUpTo(ComponentObjects,
                         MaxObjectsSentinel - BikeListSize(bl) - Len(insts) - Len(ci)) :
          files = Documents(bl, insts, ci, cr, <<>>)
    /\ PriorDatabase
    /\ RunStarts
    /\ runs = 1
    /\ first_run = <<>>
    /\ ResolverIdle
    /\ DownloaderIdle

SpecSentinel == InitSentinel /\ [][Next]_vars

-----------------------------------------------------------------------------
(* A run over two bikes that nest components, the same one possibly under
   both, in the installed list and in an installation record *)

\* components nested under each bike
MaxNested == 1

NestedBike(b, comps) ==
    [id |-> b, name |-> CHOOSE nm \in BikeNames[b] : TRUE, components |-> comps,
     usage |-> USAGE, strava_bike |-> USAGE, retired_at |-> NULL]

InitNested ==
    /\ \E order \in {<<"b1", "b2">>, <<"b2", "b1">>} :
       \E n1 \in SeqUpTo(TwiceComponents, MaxNested) :
       \E n2 \in SeqUpTo(TwiceComponents, MaxNested) :
       \E ci \in SeqUpTo(TwiceComponents, 1) :
       \E insts \in SeqUpTo(InstallationObjects(ComponentIds), 1) :
          files = Documents(<<NestedBike(order[1], n1), NestedBike(order[2], n2)>>,
                            insts, ci, <<>>, <<>>)
    /\ PriorDatabase
    /\ RunStarts
    /\ runs = 1
    /\ first_run = <<>>
    /\ ResolverIdle
    /\ DownloaderIdle

SpecNested == InitNested /\ [][Next]_vars

-----------------------------------------------------------------------------
(* A run over detail documents with a malformed installation record *)

\* objects in the document set with the malformed record
MaxObjectsMalformed == 3

\* installation records, some without their component_id
MalformedInstallations ==
    InstallationObjectsOver(ComponentIds \cup {MISSING}, ComponentIds, {DATE},
                            {SENTINEL})

InitMalformed ==
    /\ \E bl \in BikeListsOver(TwiceBikeDomain, MaxObjectsMalformed - 1) :
       \E insts \in SeqUpTo(MalformedInstallations,
                            MaxObjectsMalformed - BikeListSize(bl)) :
       \E ci \in SeqUpTo(TwiceComponents,
                         MaxObjectsMalformed - BikeListSize(bl) - Len(insts)) :
       \E cr \in SeqUpTo(TwiceComponents,
                         MaxObjectsMalformed - BikeListSize(bl) - Len(insts) - Len(ci)) :
          files = Documents(bl, insts, ci, cr, <<>>)
    /\ PriorDatabase
    /\ RunStarts
    /\ runs = 1
    /\ first_run = <<>>
    /\ ResolverIdle
    /\ DownloaderIdle

SpecMalformed == InitMalformed /\ [][Next]_vars

-----------------------------------------------------------------------------
(* A run over a document set with documents missing *)

\* objects in the documents that are on disk
MaxObjectsMissing == 2

InitMissing ==
    /\ \E bl \in BikeListsOver(TwiceBikeDomain, MaxObjectsMissing) :
       \E insts \in SeqUpTo(TwiceInstallations, MaxObjectsMissing - BikeListSize(bl)) :
       \E ci \in SeqUpTo(TwiceComponents,
                         MaxObjectsMissing - BikeListSize(bl) - Len(insts)) :
       \E cr \in SeqUpTo(TwiceComponents,
                         MaxObjectsMissing - BikeListSize(bl) - Len(insts) - Len(ci)) :
       \E cn \in SeqUpTo(TwiceComponents,
                         MaxObjectsMissing - BikeListSize(bl) - Len(insts) - Len(ci)
                             - Len(cr)) :
          files \in [bikes : DocumentOrNone(bl),
                     components_installed : DocumentOrNone(ci),
                     components_retired : DocumentOrNone(cr),
                     components_notinstalled : DocumentOrNone(cn),
                     component_details : DocumentOrNone(insts)]
    /\ PriorDatabase
    /\ RunStarts
    /\ runs = 1
    /\ first_run = <<>>
    /\ ResolverIdle
    /\ DownloaderIdle

SpecMissing == InitMissing /\ [][Next]_vars

\* once loaded, a document that is not on disk is an empty list and the
\* other documents are the lists they hold
MissingLoadsAsEmpty ==
    pc # "load" =>
        /\ error # "FileNotFoundError"
        /\ bikes = files["bikes"].content
        /\ components_installed = files["components_installed"].content
        /\ components_retired = files["components_retired"].content
        /\ components_notinstalled = files["components_notinstalled"].content
        /\ installations_data = files["component_details"].content

RunEnded == pc \in {"done", "failed"}

MissingDocuments == {n \in DocumentNames : ~files[n].exists}

-----------------------------------------------------------------------------
(* Claims *)

\* C1: every component id of the document set occurs in exactly one record
\* of the components record set, however many sources hold it.
C1_OneRecordPerComponent ==
    ComponentsBuilt =>
        \A c \in SourceComponentIds : Cardinality(RecordsOf(c)) = 1

\* C2 (as claimed): the bike_id of a component's record is the bike of every
\* "mounted on bike" installation its chain of component mounts ends in (read
\* in the claim's favour: the installations that name their bike in bike_id).
C2_BikeIdIsTerminalBike ==
    ComponentsBuilt =>
        \A i \in DOMAIN components_records :
            \A b \in ReachableBikeIds(components_records[i].id) :
                components_records[i].bike_id = b

\* C2 (amended): a record emitted from the installed, retired or
\* not-installed list carries the bike_id of one of the bike-type
\* installations with a non-null bike_id that its chain reaches (so that
\* bike, when they all name one), at any depth, and null when there is none.
C2_FlatBikeIdIsReachedBike ==
    ComponentsBuilt =>
        \A i \in FlatRecords :
            LET reached == ReachableBikeIds(components_records[i].id)
            IN  IF reached = {}
                THEN components_records[i].bike_id = NULL
                ELSE components_records[i].bike_id \in reached

\* a flat-list record whose bike is found one component mount or more away
C2_Witness ==
    /\ ComponentsBuilt
    /\ \E i \in FlatRecords :
          /\ components_records[i].bike_id \in BikeIds
          /\ components_records[i].parent_component_id # NULL
          /\ components_records[i].parent_component_id # components_records[i].id
          /\ \A r \in InstallationSet :
                r.component_id = components_records[i].id => r.target_type = "component"

\* C3 (as claimed): a cycle in the starting component's installation chain
\* makes find_ultimate_bike_id return null, without an error.
C3_CycleGivesNull ==
    ChainHasCycle(start_component) =>
        /\ resolver_status # "RecursionError"
        /\ resolver_status = "returned" => retval = NULL

\* C3 (amended): with a cycle in the chain no error is raised, and the call
\* returns null exactly when the chain reaches no bike-type installation with
\* a non-null bike_id; when it reaches one, a bike is returned.
C3_CycleGivesNullUnlessBikeReached ==
    ChainHasCycle(start_component) =>
        /\ resolver_status # "RecursionError"
        /\ resolver_status = "returned" =>
              (retval = NULL <=> ReachableBikeIds(start_component) = {})

\* a call over a cyclic chain that reaches no bike has returned null
C3_Witness ==
    /\ resolver_status = "returned"
    /\ ChainHasCycle(start_component)
    /\ ReachableBikeIds(start_component) = {}
    /\ retval = NULL
    /\ invocations > 1

\* C4: the top-level call of find_ultimate_bike_id returns, whatever the
\* installation records, self-mounts and mount cycles included.
C4_Terminates == <>(resolver_status = "returned")

\* the call has returned although the starting component is mounted on itself
\* and a second component closes a longer cycle
C4_Witness ==
    /\ resolver_status = "returned"
    /\ start_component \in MountedOn(start_component)
    /\ \E x \in MountedOn(start_component) \ {start_component} :
          start_component \in MountedOn(x)

\* C5 (as claimed): the invocations made to resolve one component number at
\* most the distinct components involved.
C5_InvocationsBound == invocations <= Cardinality(ComponentsInvolved)

\* C5 (amended): the invocations active at once (the recursion depth) number
\* at most the distinct components involved plus one, the call that meets
\* the cycle guard.
C5_DepthBound == Len(call_stack) <= Cardinality(ComponentsInvolved) + 1

\* the depth bound is met, by more invocations than there are components
C5_Witness ==
    /\ Len(call_stack) = Cardinality(ComponentsInvolved) + 1
    /\ invocations > Cardinality(ComponentsInvolved)
    /\ Cardinality(ComponentsInvolved) > 1

IdsIn(rows) == {rows[i].id : i \in DOMAIN rows}

\* C6: after a run that completes every foreign key is null or the id of a
\* row of the table it points to.
C6_ForeignKeysResolve ==
    pc = "done" =>
        LET bike_ids == IdsIn(db["bikes"].rows) \cup {NULL}
            component_ids == IdsIn(db["components"].rows) \cup {NULL}
            rows(t) == {db[t].rows[i] : i \in DOMAIN db[t].rows}
        IN  /\ \A r \in rows("components") :
                  r.bike_id \in bike_ids /\ r.parent_component_id \in component_ids
            /\ \A r \in rows("bike_usage") : r.bike_id \in bike_ids
            /\ \A r \in rows("bike_strava") : r.bike_id \in bike_ids
            /\ \A r \in rows("component_usage") : r.component_id \in component_ids
            /\ \A r \in rows("installations") :
                  r.component_id \in component_ids /\ r.bike_id \in bike_ids

\* C7: a component record has retired_at = null when its source entry holds
\* the sentinel, and its source entry's retired_at otherwise, whichever list
\* the record was emitted from.
C7_SentinelRetiredAtIsNull ==
    \A i \in DOMAIN components_records :
        components_records[i].retired_at =
            (IF emitted_from[i].component.retired_at = SENTINEL
             THEN NULL
             ELSE emitted_from[i].component.retired_at)

\* the four sources have each emitted a record, sentinel and real date among them
C7_Witness ==
    /\ ComponentsBuilt
    /\ \E i, j \in DOMAIN components_records :
          /\ emitted_from[i].list \in {"retired", "notinstalled"}
          /\ emitted_from[i].component.retired_at = SENTINEL
          /\ components_records[i].retired_at = NULL
          /\ emitted_from[j].list \in {"nested", "installed"}
          /\ emitted_from[j].component.retired_at = DATE
          /\ components_records[j].retired_at = DATE

StatusOfList(list) ==
    CASE list = "nested" -> "installed"
      [] list = "installed" -> "installed"
      [] list = "retired" -> "retired"
      [] list = "notinstalled" -> "not_installed"

\* C8: the status of a component record is the one of the list it was
\* emitted from.
C8_StatusFromSourceList ==
    \A i \in DOMAIN components_records :
        components_records[i].status = StatusOfList(emitted_from[i].list)

\* the installation records are exactly: c mounted on component p, and p
\* mounted on bike b with bike_id x
C9_Scenario(c, p, b, x) ==
    /\ Len(installations_data) = 2
    /\ InstallationSet =
          {[component_id |-> c, target_type |-> "component", target_id |-> p,
            bike_id |-> NULL, added_at |-> DATE, removed_at |-> SENTINEL],
           [component_id |-> p, target_type |-> "bike", target_id |-> b,
            bike_id |-> x, added_at |-> DATE, removed_at |-> SENTINEL]}

C10_Precedence ==
    {<<"bikes", "bike_usage">>, <<"bikes", "bike_strava">>, <<"bikes", "components">>,
     <<"components", "component_usage">>, <<"components", "installations">>}

\* C10: whenever rows of a child table are in the database, or about to be
\* inserted, all rows of its parent table are there; the components rows go
\* in as one batch.
C10_InsertionOrder ==
    pc \in {"insert", "done", "failed"} =>
        /\ \A e \in C10_Precedence :
              (\/ db[e[2]].rows # <<>>
               \/ /\ pc = "insert"
                  /\ InsertOrder[insert_index] = e[2]
                  /\ RecordsFor(e[2]) # <<>>)
              => db[e[1]].rows = RecordsFor(e[1])
        /\ db["components"].rows \in {<<>>, components_records}

\* a completed run that wrote rows to all six tables
C10_Witness ==
    /\ pc = "done"
    /\ \A i \in DOMAIN InsertOrder : db[InsertOrder[i]].rows # <<>>

\* C11: a second run over the same documents and the same database leaves
\* the database (its tables, their rows, its views and its indexes) as the
\* first run left it, whether the runs complete or fail.
C11_Idempotent ==
    runs = 2 /\ RunEnded => Database = first_run[1]

\* two completed runs over a database an earlier run had filled, each
\* writing rows and the analysis table
C11_Witness ==
    /\ runs = 2
    /\ pc = "done"
    /\ db["component_lifetime_analysis"].rows # <<>>
    /\ db["bike_usage"].rows # <<>>
    /\ first_run[1].views = {"component_summary"}

\* the six base tables
BaseTables == {InsertOrder[i] : i \in DOMAIN InsertOrder}

\* C12: after a run that completes the database holds the six base tables,
\* the component_summary view and the component_lifetime_analysis table.
C12_SchemaExposed ==
    pc = "done" =>
        /\ \A t \in BaseTables : db[t].exists
        /\ "component_summary" \in views
        /\ db["component_lifetime_analysis"].exists

HoldsOldRows(t) == db[t].rows # <<>> /\ db[t].rows = OldRows(t)

\* the table holds the rows this run built for it
Rebuilt(t) == db[t].rows # <<>> /\ db[t].rows = RecordsFor(t)

\* the run ended in the exception of a drop or of an insert
WriteFailed ==
    pc = "failed" /\ error \in {"AlterError", "IntegrityError", "OperationalError"}

\* C14: after a failed drop or insert no later table is written, no table
\* with rows of the previous run stands next to a table rebuilt in this run,
\* and no table holds rows while a table its foreign keys name is missing.
C14_FailureLeavesNoMix ==
    WriteFailed =>
        /\ \A i \in DOMAIN InsertOrder :
              i > insert_index => ~Rebuilt(InsertOrder[i])
        /\ ~(\E t, u \in BaseTables : HoldsOldRows(t) /\ Rebuilt(u))
        /\ \A t \in BaseTables :
              db[t].rows # <<>> => \A o \in ForeignKeyTables(t) : db[o].exists

\* C15: no failure of an index or of a derived artifact ends the run in an
\* error: once the inserts are through, the six base tables hold the rows of
\* this run up to and after the return.
C15_SecondaryFailuresTolerated ==
    /\ error # "OperationalError"
    /\ pc \in {"indexes", "views", "done"} =>
          \A t \in BaseTables : db[t].rows = RecordsFor(t)

\* a run that returned although a create_index call and the creation of the
\* analysis table had failed, with the rows it inserted in place
C15_Witness ==
    /\ pc = "done"
    /\ indexes # AllIndexes
    /\ ~db["component_lifetime_analysis"].exists
    /\ db["bikes"].rows # <<>>
    /\ db["components"].rows # <<>>

\* the detail documents hold an installation record without component_id
MalformedDocuments ==
    \E i \in DOMAIN files["component_details"].content :
        files["component_details"].content[i].component_id = MISSING

\* C16: with an installation record that lacks component_id in the
\* documents the run never completes and writes no installation row; once
\* the installations have been gone through it has ended in KeyError, whether
\* or not a component was resolved before.
C16_MalformedInstallationFails ==
    MalformedDocuments =>
        /\ pc \notin {"drop", "insert", "indexes", "views", "done"}
        /\ installation_records = <<>>
        /\ pc = "failed" => error = "KeyError"

\* the run ended in KeyError at the installation records themselves, no
\* component having gone through the resolver
C16_Witness ==
    /\ MalformedDocuments
    /\ pc = "failed"
    /\ error = "KeyError"
    /\ components_installed = <<>>
    /\ components_retired = <<>>
    /\ components_records # <<>>

\* the rows of component_summary that stem from row i of components
SummaryRowsOf(i) == {r \in component_summary_rows(db) : r.of = i}

\* when the four tables the view reads exist, it has one row per component
SummaryOneRowWhenQueryable ==
    pc = "done" /\ SummaryQueryable(db) =>
        \A i \in DOMAIN db["components"].rows : Cardinality(SummaryRowsOf(i)) = 1

\* C17: after a run that completes a SELECT over component_summary returns
\* exactly one row for each row of the components table.
C17_OneSummaryRowPerComponent ==
    pc = "done" =>
        \A i \in DOMAIN db["components"].rows : Cardinality(SummaryRowsOf(i)) = 1

\* the rows of the analysis table
AnalysisRows ==
    {db["component_lifetime_analysis"].rows[i] :
        i \in DOMAIN db["component_lifetime_analysis"].rows}

\* the name of the bike a components row points to, null when there is none
BikeNameOf(c) ==
    LET named == {db["bikes"].rows[j].name :
                    j \in {x \in DOMAIN db["bikes"].rows :
                             db["bikes"].rows[x].id = c.bike_id}}
    IN  IF named = {} THEN NULL ELSE CHOOSE nm \in named : TRUE

\* the components rows an analysis row stands for
GroupOf(row) ==
    {i \in DOMAIN db["components"].rows :
        /\ db["components"].rows[i].type = row.type
        /\ BikeNameOf(db["components"].rows[i]) = row.bike}

DatedIn(row) == {i \in GroupOf(row) : db["components"].rows[i].retired_at # NULL}

RetirementDays(row) == {Day(db["components"].rows[i].retired_at) : i \in DatedIn(row)}

\* C18: avg_years_between_replacements is non-null only in a row whose group
\* has two or more dated retirements falling on two or more days; then the
\* divisor is the number of dated retirements less one, never zero; every
\* group has its row, whatever its dates.
C18_ReplacementAverageGuarded ==
    pc = "done" /\ db["component_lifetime_analysis"].exists =>
        /\ \A row \in AnalysisRows :
              ~row.avg_years_between_replacements.is_null =>
                  /\ Cardinality(DatedIn(row)) >= 2
                  /\ Cardinality(RetirementDays(row)) >= 2
                  /\ row.avg_years_between_replacements.divisor =
                         Cardinality(DatedIn(row)) - 1
                  /\ row.avg_years_between_replacements.divisor # 0
        /\ \A i \in DOMAIN db["components"].rows :
              \E row \in AnalysisRows : i \in GroupOf(row)

\* an analysis table with the average in one row (two dated retirements on
\* different days) and null in another, whose group has one dated retirement
C18_Witness ==
    /\ pc = "done"
    /\ \E row \in AnalysisRows :
          /\ ~row.avg_years_between_replacements.is_null
          /\ row.avg_years_between_replacements.divisor = 1
    /\ \E row \in AnalysisRows :
          /\ row.avg_years_between_replacements.is_null
          /\ Cardinality(DatedIn(row)) = 1

\* the rows component_lifetime_analysis shows, table or view
AnalysisNow ==
    IF "component_lifetime_analysis" \in views
    THEN component_lifetime_analysis_rows_main(db)
    ELSE db["component_lifetime_analysis"].rows

\* the pairs (owning bike, type) among the components
OwnerTypePairs ==
    {<<db["components"].rows[i].bike_id, db["components"].rows[i].type>> :
        i \in DOMAIN db["components"].rows}

ComponentsOfPair(pair) ==
    {i \in DOMAIN db["components"].rows :
        /\ db["components"].rows[i].bike_id = pair[1]
        /\ db["components"].rows[i].type = pair[2]}

\* one row per pair (owning bike, type), counting that pair's components
GroupedByOwnerAndType ==
    /\ Len(AnalysisNow) = Cardinality(OwnerTypePairs)
    /\ \A pair \in OwnerTypePairs :
          \E k \in DOMAIN AnalysisNow :
              /\ AnalysisNow[k].type = pair[2]
              /\ AnalysisNow[k].total_components = Cardinality(ComponentsOfPair(pair))

\* src/sqlite_converter.py groups by bike name: with its analysis table
\* built and the two bikes named apart, the rows are the pairs
GroupedByOwnerWhenNamedApart ==
    /\ pc = "done"
    /\ db["component_lifetime_analysis"].exists
    /\ \A i, j \in DOMAIN db["bikes"].rows :
          db["bikes"].rows[i].name = db["bikes"].rows[j].name => i = j
    => GroupedByOwnerAndType

\* C19: after a run that completes component_lifetime_analysis has exactly
\* one row for each pair (owning bike, component type) among the components,
\* and that row counts the components of that bike and type alone.
C19_GroupedByBikeAndType ==
    pc = "done" => GroupedByOwnerAndType

\* no component record and no installation record carries the sentinel
SentinelNulledBelowBikes ==
    /\ \A i \in DOMAIN components_records :
          components_records[i].retired_at # SENTINEL
    /\ \A i \in DOMAIN installation_records :
          installation_records[i].removed_at # SENTINEL

\* a component and an installation whose documents held the sentinel have
\* been emitted with null in its place
SentinelNulledBelowBikesSeen ==
    /\ \E i \in DOMAIN components_records :
          /\ emitted_from[i].component.retired_at = SENTINEL
          /\ components_records[i].retired_at = NULL
    /\ \E i \in DOMAIN installation_records :
          /\ installations_data[i].removed_at = SENTINEL
          /\ installation_records[i].removed_at = NULL

\* C20: no bike record, component record or installation record built by
\* the normalizer holds the sentinel 0001-01-01T00:00:00Z in retired_at or
\* removed_at.
C20_SentinelNulledEverywhere ==
    /\ \A i \in DOMAIN bikes_records : bikes_records[i].retired_at # SENTINEL
    /\ SentinelNulledBelowBikes

\* the positions of the component-type records of one component
ComponentMountsOf(component_id) ==
    {k \in DOMAIN installations_data :
        /\ installations_data[k].component_id = component_id
        /\ installations_data[k].target_type = "component"}

\* C21: the record of a component emitted from the installed, retired or
\* not-installed list has as parent_component_id the target_id of the first
\* component-type installation record of that component, in record order,
\* and null when it has none, whether or not a bike was resolved for it.
C21_ParentIsFirstComponentMount ==
    ComponentsBuilt =>
        \A i \in FlatRecords :
            LET mounts == ComponentMountsOf(components_records[i].id)
            IN  components_records[i].parent_component_id =
                    IF mounts = {} THEN NULL
                    ELSE installations_data[
                             CHOOSE k \in mounts : \A j \in mounts : k <= j].target_id

\* a flat-list component with two component-type records naming different
\* targets has the first one as parent, and no bike was resolved for it
C21_Witness ==
    /\ ComponentsBuilt
    /\ \E i \in FlatRecords :
          LET mounts == ComponentMountsOf(components_records[i].id)
          IN  /\ \E k1, k2 \in mounts :
                    /\ k1 < k2
                    /\ \A j \in mounts : k1 <= j
                    /\ installations_data[k1].target_id # installations_data[k2].target_id
                    /\ components_records[i].parent_component_id =
                           installations_data[k1].target_id
              /\ components_records[i].bike_id = NULL

\* the positions of the bike-type records of the starting component that
\* carry a bike_id
BikeMountsOfStart ==
    {k \in DOMAIN installations_data :
        /\ installations_data[k].component_id = start_component
        /\ installations_data[k].target_type = "bike"
        /\ installations_data[k].bike_id # NULL}

FirstBikeMountOfStart == CHOOSE k \in BikeMountsOfStart : \A j \in BikeMountsOfStart : k <= j

\* the component-type records of the starting component that stand before
\* its first bike-type record
MountsBeforeFirstBikeMount ==
    {k \in ComponentMountsOf(start_component) : k < FirstBikeMountOfStart}

\* C22 (as claimed): when the starting component has a bike-type record with
\* a non-null bike_id, the call returns the bike of the first such record
\* without a recursive call, whatever its component-type records are.
C22_FirstBikeMountWins ==
    resolver_status = "returned" /\ BikeMountsOfStart # {} =>
        /\ retval = installations_data[FirstBikeMountOfStart].bike_id
        /\ invocations = 1

\* C22 (amended): with such a record the call returns a bike; it is the bike
\* of the first such record, found without a recursive call, when no
\* component-type record of the component stands before it, and otherwise
\* that bike or one reached through a component-type record standing before.
C22_FirstBikeMountWinsUnlessPreceded ==
    resolver_status = "returned" /\ BikeMountsOfStart # {} =>
        /\ retval # NULL
        /\ MountsBeforeFirstBikeMount = {} =>
              /\ retval = installations_data[FirstBikeMountOfStart].bike_id
              /\ invocations = 1
        /\ retval # installations_data[FirstBikeMountOfStart].bike_id =>
              \E k \in MountsBeforeFirstBikeMount :
                  retval \in ReachableBikeIds(installations_data[k].target_id)

\* the call returned the bike of the first bike-type record at once, with a
\* component-type record of the same component standing after it that leads
\* to another bike
C22_Witness ==
    /\ resolver_status = "returned"
    /\ BikeMountsOfStart # {}
    /\ retval = installations_data[FirstBikeMountOfStart].bike_id
    /\ invocations = 1
    /\ \E k \in ComponentMountsOf(start_component) :
          /\ k > FirstBikeMountOfStart
          /\ ReachableBikeIds(installations_data[k].target_id) \ {retval} # {}

\* the entries of the retired and not-installed lists, in processing order
StatusEntries == components_retired \o components_notinstalled

\* every entry of the retired and not-installed lists is the only entry of
\* its component in the whole document set
StatusEntriesUnique ==
    /\ \A i, j \in DOMAIN StatusEntries :
          StatusEntries[i].id = StatusEntries[j].id => i = j
    /\ \A i \in DOMAIN StatusEntries :
          /\ StatusEntries[i].id \notin NestedIds(bikes)
          /\ \A j \in DOMAIN components_installed :
                components_installed[j].id # StatusEntries[i].id

UsageRecordsOf(c, usage_type) ==
    {i \in DOMAIN component_usage_records :
        /\ component_usage_records[i].component_id = c
        /\ component_usage_records[i].usage_type = usage_type}

\* the dedup key of the nested and installed loops: one record per key as
\* long as the unkeyed retired / not-installed loop adds no second one
KeyedUsageOnce ==
    StatusEntriesUnique =>
        \A c \in ComponentIds : \A t \in {"current", "initial"} :
            Cardinality(UsageRecordsOf(c, t)) <= 1

\* a component nested without usage and listed as installed with usage has
\* got its one current usage record from the installed list
UsageFromInstalledList ==
    /\ ComponentsBuilt
    /\ \E c \in NestedIds(bikes) :
          /\ \E j \in DOMAIN components_installed :
                /\ components_installed[j].id = c
                /\ Truthy(components_installed[j].usage)
          /\ \E i \in DOMAIN emitted_from :
                /\ emitted_from[i].list = "nested"
                /\ emitted_from[i].component.id = c
                /\ ~Truthy(emitted_from[i].component.usage)
          /\ Cardinality(UsageRecordsOf(c, "current")) = 1

\* C23: component_usage_records holds at most one record per pair
\* (component_id, usage_type), whatever the documents: never a second record
\* of the same usage_type for a component.
C23_OneUsagePerKey ==
    \A c \in ComponentIds : \A t \in {"current", "initial"} :
        Cardinality(UsageRecordsOf(c, t)) <= 1

\* the bikes that nest component c, by position in the bike list
NestingBikes(c) ==
    {k \in DOMAIN bikes : \E m \in DOMAIN bikes[k].components :
                             bikes[k].components[m].id = c}

FirstNestingBike(c) == bikes[CHOOSE k \in NestingBikes(c) : \A j \in NestingBikes(c) : k <= j]

\* the first entry of c among the components of its first nesting bike
FirstNestedEntry(c) ==
    LET comps == FirstNestingBike(c).components
        at == {m \in DOMAIN comps : comps[m].id = c}
    IN  comps[CHOOSE m \in at : \A j \in at : m <= j]

\* the records of c that come from a bike's components or the installed list
InstalledRecordsOf(c) ==
    {i \in RecordsOf(c) : emitted_from[i].list \in {"nested", "installed"}}

\* C24: a component nested under a bike has one record from the bikes and
\* the installed list together: status installed, the bike_id of the first
\* bike of the list that nests it, parent_component_id null, retired_at from
\* its first nested entry, whatever the installation records and the later
\* occurrences are.
C24_FirstNestedOccurrenceWins ==
    ComponentsBuilt =>
        \A c \in NestedIds(bikes) :
            /\ Cardinality(InstalledRecordsOf(c)) = 1
            /\ \A i \in InstalledRecordsOf(c) :
                  /\ components_records[i].status = "installed"
                  /\ components_records[i].bike_id = FirstNestingBike(c).id
                  /\ components_records[i].parent_component_id = NULL
                  /\ components_records[i].retired_at = FirstNestedEntry(c).retired_at

\* a component nested under both bikes, with different entries, has the
\* record of its first entry
C24_Witness ==
    /\ ComponentsBuilt
    /\ \E c \in NestedIds(bikes) :
          /\ Cardinality(NestingBikes(c)) = 2
          /\ \E k \in NestingBikes(c) : \E m \in DOMAIN bikes[k].components :
                /\ bikes[k].components[m].id = c
                /\ bikes[k].components[m] # FirstNestedEntry(c)
          /\ \A i \in InstalledRecordsOf(c) :
                /\ components_records[i].bike_id = FirstNestingBike(c).id
                /\ components_records[i].retired_at = FirstNestedEntry(c).retired_at

\* a nested component that is also in the installed list and has an
\* installation record on the other bike keeps the nesting bike
C24_WitnessInstalled ==
    /\ ComponentsBuilt
    /\ \E c \in NestedIds(bikes) :
          /\ \E j \in DOMAIN components_installed : components_installed[j].id = c
          /\ \E r \in InstallationSet :
                /\ r.component_id = c
                /\ r.target_type = "bike"
                /\ r.bike_id \notin {NULL, FirstNestingBike(c).id}
          /\ \A i \in InstalledRecordsOf(c) :
                components_records[i].bike_id = FirstNestingBike(c).id

\* C25: the call ends without an error and returns a bike exactly when some
\* path of component-type records, possibly empty, leads from the starting
\* component to a component with a bike-type record carrying a bike_id; the
\* bike returned is one so reached.
C25_CompleteSearch ==
    /\ resolver_status # "RecursionError"
    /\ resolver_status = "returned" =>
          /\ retval # NULL <=> ReachableBikeIds(start_component) # {}
          /\ retval # NULL => retval \in ReachableBikeIds(start_component)

\* the starting component is mounted on itself first, a branch the cycle
\* guard ends, and then on another component, through which the bike is found
C25_Witness ==
    /\ resolver_status = "returned"
    /\ retval # NULL
    /\ BikeMountsOfStart = {}
    /\ \E k1, k2 \in ComponentMountsOf(start_component) :
          /\ k1 < k2
          /\ installations_data[k1].target_id = start_component
          /\ installations_data[k2].target_id # start_component
          /\ retval \in ReachableBikeIds(installations_data[k2].target_id)

\* the documents have been read
InputsLoaded ==
    /\ bikes = load(files["bikes"]).content
    /\ components_installed = load(files["components_installed"]).content
    /\ components_retired = load(files["components_retired"]).content
    /\ components_notinstalled = load(files["components_notinstalled"]).content
    /\ installations_data = load(files["component_details"]).content

\* every record set holds what its documents give: a record per bike and per
\* installation record, a record for every component listed
RecordSetsComplete ==
    /\ InputsLoaded
    /\ Len(bikes_records) = Len(bikes)
    /\ Len(installation_records) = Len(installations_data)
    /\ \A c \in SourceComponentIds : RecordsOf(c) # {}

\* C26: the database changes only once every record set is complete, and
\* complete they stay; a KeyError of the normalizer is raised while they are
\* not, and leaves the database as it is: the tables keep the contents they
\* had before the run.
C26_NormalizedBeforeWritten ==
    [][/\ database' # database => RecordSetsComplete /\ error = NULL
       /\ RecordSetsComplete => RecordSetsComplete'
       /\ error' = "KeyError" /\ error # "KeyError" =>
             /\ ~RecordSetsComplete
             /\ database' = database
             /\ pc' = "failed"
       /\ pc # "failed"]_vars

\* the run has failed on a malformed installation record with the tables of
\* the earlier database all in place
C26_Witness ==
    /\ pc = "failed"
    /\ error = "KeyError"
    /\ db = OldDb
    /\ bikes_records # <<>>

\* the component is in the retired list of the run
ListedAsRetired(component_id) ==
    \E i \in DOMAIN all_components :
        /\ all_components[i].id = component_id
        /\ all_components[i]._source_type = "retired"

Requested(outcome) ==
    outcome.component_data # NOT_REQUESTED \/ outcome.installations_data # NOT_REQUESTED

\* C27 (as claimed): in every run, nothing is requested and nothing written
\* for a component listed as retired whose detail file exists, and every
\* entry of the installed and not-installed lists is downloaded.
C27_RetiredFileNeverTouched ==
    \A k \in DOMAIN processed :
        /\ ListedAsRetired(processed[k].component.id) /\ processed[k].before.exists =>
              ~Requested(processed[k]) /\ ~processed[k].wrote
        /\ processed[k].component._source_type # "retired" =>
              /\ processed[k].component_data # NOT_REQUESTED
              /\ processed[k].installations_data # NOT_REQUESTED

\* C27 (amended): in every run, an entry of the retired list whose detail
\* file, named by the entry's id and type, exists causes no request and no
\* write and leaves the file as it was; every other entry has both its
\* documents requested.
C27_RetiredEntrySkipped ==
    \A k \in DOMAIN processed :
        IF processed[k].component._source_type = "retired" /\ processed[k].before.exists
        THEN /\ ~Requested(processed[k])
             /\ ~processed[k].wrote
             /\ processed[k].left = processed[k].before
        ELSE /\ processed[k].component_data # NOT_REQUESTED
             /\ processed[k].installations_data # NOT_REQUESTED

\* in the second run a retired entry whose file the first run wrote is
\* skipped, and an installed or not-installed entry whose file the first run
\* wrote is downloaded again
C27_Witness ==
    /\ dl_runs = 2
    /\ \E k, j \in DOMAIN processed :
          /\ processed[k].component._source_type = "retired"
          /\ processed[k].before = Document(ApiData)
          /\ ~Requested(processed[k])
          /\ processed[j].component._source_type # "retired"
          /\ processed[j].before = Document(ApiData)
          /\ Requested(processed[j])

DownloadFailed(outcome) ==
    outcome.component_data = NULL \/ outcome.installations_data = NULL

\* C28: a detail file is written only for an entry whose component document
\* and installations document were both fetched; when either request fails
\* nothing is written for the entry and its file, if there is one, stays as
\* it was; and the run goes through every entry of the lists whatever failed.
C28_SavedOnlyWhenBothFetched ==
    /\ \A k \in DOMAIN processed :
          /\ processed[k].component = all_components[k]
          /\ processed[k].wrote =>
                /\ processed[k].component_data = ApiData
                /\ processed[k].installations_data = ApiData
          /\ DownloadFailed(processed[k]) =>
                /\ ~processed[k].wrote
                /\ processed[k].left = processed[k].before
    /\ dl_pc = "done" => Len(processed) = Len(all_components)

\* a run has ended in which the installations request of one entry failed,
\* its file from the run before staying as it was, and the file of the
\* entry after it was written
C28_Witness ==
    /\ dl_pc = "done"
    /\ \E k, j \in DOMAIN processed :
          /\ k < j
          /\ processed[k].component_data = ApiData
          /\ processed[k].installations_data = NULL
          /\ processed[k].before.exists
          /\ processed[k].left = processed[k].before
          /\ processed[j].wrote
          /\ detail_files[output_file(processed[j].component)].exists

====
